---- MODULE Spec2Model ----
(***************************************************************************)
(* py-cifsdk: the feed engine of the CIF client.                           *)
(*                                                                         *)
(*   Client.aggregate          src/cifsdk/client.py                        *)
(*   factory                   src/cifsdk/feed/__init__.py                 *)
(*   Ipv4.process              src/cifsdk/feed/ipv4.py                     *)
(*   Fqdn.match_whitelist,                                                 *)
(*   Fqdn.process              src/cifsdk/feed/fqdn.py                     *)
(*   main (the search branch)  src/cifsdk/client.py                        *)
(*                                                                         *)
(* Representation of Python values:                                        *)
(*   - a list is a sequence, a set is a set, a dict record is a record;    *)
(*   - a domain string is the sequence of its labels, so that              *)
(*     d.split('.') and '.'.join(bits) are the two directions of that      *)
(*     representation ("a.b" is <<"a","b">>, "" is <<"">>);                *)
(*   - an IPv4 string is [addr |-> four octets, slash |-> whether it has   *)
(*     a '/', plen |-> the number after the '/'];                          *)
(*   - None, and the falsy result of a function that falls off its end,    *)
(*     is the string "None".                                               *)
(***************************************************************************)
EXTENDS Integers, Sequences, FiniteSets, TLC

VARIABLES
    \* ---- Client.aggregate, called in a chain: ret = cli.aggregate(ret, ...)
    aggArg,        \* the list passed to the last call of aggregate
    aggData,       \* that same list object as it is after the call
    aggRet,        \* the caller's ret: the search result, then each call's rv
    aggField,      \* field argument of the last call ("None": no call yet)
    aggSort,       \* sort argument of the last call
    aggPrevField,  \* field argument of the call before the last
    aggPrevSort    \* sort argument of the call before the last

VARIABLES
    \* ---- one feed plugin instance, f = feed_factory(otype)(), and its calls
    plugin,        \* "ipv4" or "fqdn": the class of the instance
    feedData,      \* the record list the caller holds and passes to process
    selfWl,        \* Fqdn: self.wl of the instance; Ipv4 has no attribute ({})
    res            \* the last call of process: its whitelist argument, the
                   \* instance state before it, and how it ended

VARIABLES
    \* ---- one call of Fqdn.match_whitelist(wl, d)
    mWl,           \* the wl argument
    mD,            \* the d argument
    mRv            \* "pending", then what the call returned: "True" or "None"

VARIABLES
    \* ---- main, from the search on
    pc,            \* the statement main is at
    options,       \* the parsed command line: otype, aggregate, feed
    ret,           \* main's ret
    mainWl,        \* main's wl, the result of the whitelist search
    mainF,         \* main's f, what feed_factory returned
    raised,        \* the exception that ended main ("None": none)
    printed        \* what main printed (<<>>: nothing)

aggVars == <<aggArg, aggData, aggRet, aggField, aggSort, aggPrevField, aggPrevSort>>

feedVars == <<plugin, feedData, selfWl, res>>

matchVars == <<mWl, mD, mRv>>

mainVars == <<pc, options, ret, mainWl, mainF, raised, printed>>

vars == <<aggVars, feedVars, matchVars, mainVars>>

\* ------------------------------------------------------------------ bounds

\* longest record list handed to aggregate
MaxData == 3

\* longest record list handed to process
MaxFeedData == 2

\* longest dynamic whitelist handed to process
MaxWl == 2

\* most labels of a candidate domain handed to match_whitelist
MaxLabels == 4

\* ------------------------------------------------------------------ values

None == "None"

\* "a.b.c.d"
Ip(a, b, c, d) == [addr |-> <<a, b, c, d>>, slash |-> FALSE, plen |-> 0]

\* "a.b.c.d/n"
Cidr(a, b, c, d, n) == [addr |-> <<a, b, c, d>>, slash |-> TRUE, plen |-> n]

Rec(o, c, t, p, tg) ==
    [observable |-> o, confidence |-> c, lasttime |-> t, provider |-> p, tags |-> tg]

\* res before any call of process
NoCall == [state |-> "none", whitelist |-> <<>>, rv |-> <<>>, pre |-> {}, post |-> {}]

SeqsUpTo(S, n) == UNION {[1..k -> S] : k \in 0..n}

\* ------------------------------------------------------------------ Client.aggregate

\* a faulty sort: d goes in front of the elements of equal key (an unstable sort)
RECURSIVE InsertDescUnstable(_, _, _)
InsertDescUnstable(s, d, sort) ==
    IF s = <<>> THEN <<d>>
    ELSE IF Head(s)[sort] > d[sort]
         THEN <<Head(s)>> \o InsertDescUnstable(Tail(s), d, sort)
         ELSE <<d>> \o s

\* sorted(data, key=lambda x: x[sort], reverse=True), one element at a time:
\* d goes behind every element whose key is not smaller, so equal keys keep
\* their input order (Python's sort is stable, also with reverse=True).
RECURSIVE InsertDesc(_, _, _)
InsertDesc(s, d, sort) ==
    IF s = <<>> THEN <<d>>
    ELSE IF Head(s)[sort] >= d[sort]
         THEN <<Head(s)>> \o InsertDesc(Tail(s), d, sort)
         ELSE <<d>> \o s

RECURSIVE SortedDesc(_, _)
SortedDesc(data, sort) ==
    IF data = <<>> THEN <<>>
    ELSE InsertDesc(SortedDesc(SubSeq(data, 1, Len(data) - 1), sort),
                    data[Len(data)], sort)

\* a faulty loop: the key is recorded but the duplicate is appended all the same
RECURSIVE AggregateLoopKeepAll(_, _, _, _)
AggregateLoopKeepAll(s, x, rv, field) ==
    IF s = <<>> THEN rv
    ELSE AggregateLoopKeepAll(Tail(s), x \cup {Head(s)[field]}, Append(rv, Head(s)), field)

\* the loop of aggregate over the sorted list: x is the set of keys seen,
\* rv the records kept
RECURSIVE AggregateLoop(_, _, _, _)
AggregateLoop(s, x, rv, field) ==
    IF s = <<>> THEN rv
    ELSE LET d == Head(s) IN
         IF d[field] \notin x
         THEN AggregateLoop(Tail(s), x \cup {d[field]}, Append(rv, d), field)
         ELSE AggregateLoop(Tail(s), x, rv, field)

aggregate(data, field, sort) == AggregateLoop(SortedDesc(data, sort), {}, <<>>, field)

\* records of one query result: duplicates of an observable with different
\* and with equal confidence
AggRecords ==
    { Rec(Ip(1, 2, 3, 4), 85, 1, "a", {}),
      Rec(Ip(1, 2, 3, 4), 40, 2, "b", {}),
      Rec(Ip(1, 2, 3, 4), 85, 2, "b", {"botnet"}),
      Rec(Ip(10, 1, 1, 1), 90, 1, "a", {}),
      Rec(Ip(10, 1, 1, 1), 85, 3, "c", {}) }

KeyFields == {"observable", "provider"}

RankFields == {"confidence", "lasttime"}

\* a search result in ret, no call of aggregate yet; nothing else runs
AggInit ==
    /\ aggRet \in SeqsUpTo(AggRecords, MaxData)
    /\ aggArg = <<>>
    /\ aggData = <<>>
    /\ aggField = None
    /\ aggSort = None
    /\ aggPrevField = None
    /\ aggPrevSort = None
    /\ plugin = "ipv4"
    /\ feedData = <<>>
    /\ selfWl = {}
    /\ res = NoCall
    /\ mWl = {}
    /\ mD = <<>>
    /\ mRv = "pending"
    /\ pc = "done"
    /\ options = [otype |-> None, aggregate |-> None, feed |-> FALSE]
    /\ ret = <<>>
    /\ mainWl = <<>>
    /\ mainF = None
    /\ raised = None
    /\ printed = <<>>

\* ret = cli.aggregate(ret, field=field, sort=sort)
Aggregate(field, sort) ==
    /\ aggArg' = aggRet
    /\ aggData' = aggRet            \* sorted() copies: the argument is not touched
    /\ aggRet' = aggregate(aggRet, field, sort)
    /\ aggField' = field
    /\ aggSort' = sort
    /\ aggPrevField' = aggField
    /\ aggPrevSort' = aggSort
    /\ UNCHANGED <<feedVars, matchVars, mainVars>>

AggNext == \E field \in KeyFields, sort \in RankFields : Aggregate(field, sort)

\* ------------------------------------------------------------------ feed/ipv4.py

Ipv4PermWhitelist ==
    << Cidr(0, 0, 0, 0, 8),
       Cidr(10, 0, 0, 0, 8),
       Cidr(127, 0, 0, 0, 8),
       Cidr(192, 168, 0, 0, 16),
       Cidr(169, 254, 0, 0, 16),
       Cidr(192, 0, 2, 0, 24),
       Cidr(224, 0, 0, 0, 4),
       Cidr(240, 0, 0, 0, 5),
       Cidr(248, 0, 0, 0, 5) >>

RECURSIVE Pow2(_)
Pow2(k) == IF k = 0 THEN 1 ELSE 2 * Pow2(k - 1)

\* how many of the first n bits of an address lie in its i-th octet
OctetBits(n, i) ==
    LET r == n - 8 * (i - 1) IN IF r <= 0 THEN 0 ELSE IF r >= 8 THEN 8 ELSE r

\* the first n bits of the addresses a and b are the same
SamePrefix(a, b, n) ==
    \A i \in 1..4 :
        a[i] \div Pow2(8 - OctetBits(n, i)) = b[i] \div Pow2(8 - OctetBits(n, i))

\* y = '{}/32'.format(y) when y has no '/'
WithSlash32(y) == IF y.slash THEN y ELSE [y EXCEPT !.slash = TRUE, !.plen = 32]

\* the prefix length PyTricia reads from a key: an address without '/' is a host
KeyLen(k) == IF k.slash THEN k.plen ELSE 32

\* `k in wl` on a PyTricia: some stored prefix covers the key (the longest
\* such prefix is the match; whether there is one is all that `in` reports)
TrieContains(wl, k) ==
    \E p \in wl : p.plen <= KeyLen(k) /\ SamePrefix(p.addr, k.addr, p.plen)

\* a Python value of the whitelist argument: a str or a dict
StrVal(s) == [kind |-> "str", val |-> s]

DictVal(r) == [kind |-> "dict", val |-> r]

\* the second loop of Ipv4.process: y['observable'] of a str raises TypeError
RECURSIVE Ipv4Insert(_, _)
Ipv4Insert(wl, whitelist) ==
    IF whitelist = <<>> THEN [wl |-> wl, raised |-> None]
    ELSE LET y == Head(whitelist) IN
         IF y.kind # "dict" THEN [wl |-> wl, raised |-> "TypeError"]
         ELSE Ipv4Insert(wl \cup {WithSlash32(y.val.observable)}, Tail(whitelist))

\* tag_contains_whitelist
tag_contains_whitelist(tags) == "whitelist" \in tags

\* the third loop of Ipv4.process
RECURSIVE Ipv4Filter(_, _, _)
Ipv4Filter(wl, d, rv) ==
    IF d = <<>> THEN rv
    ELSE LET y == Head(d) IN
         IF tag_contains_whitelist(y.tags) THEN Ipv4Filter(wl, Tail(d), rv)
         ELSE IF ~TrieContains(wl, y.observable)
              THEN Ipv4Filter(wl, Tail(d), Append(rv, y))
              ELSE Ipv4Filter(wl, Tail(d), rv)

\* the trie after the first loop of Ipv4.process
Ipv4Perm == {Ipv4PermWhitelist[i] : i \in 1..Len(Ipv4PermWhitelist)}

\* a faulty seeding: the trie starts empty when there are dynamic entries
Ipv4SeedDynamicOnly(whitelist) == IF whitelist = <<>> THEN Ipv4Perm ELSE {}

Ipv4Seed(whitelist) == Ipv4Perm

\* Ipv4.process(data, whitelist): what it raises, what it returns
Ipv4Process(d, whitelist) ==
    LET ins == Ipv4Insert(Ipv4Seed(whitelist), whitelist) IN
    IF ins.raised # None THEN [raised |-> ins.raised, rv |-> <<>>, wl |-> {}]
    ELSE [raised |-> None, rv |-> Ipv4Filter(ins.wl, d, <<>>), wl |-> {}]

\* ------------------------------------------------------------------ feed/fqdn.py

FqdnPermWhitelist ==
    << <<"google", "com">>,
       <<"yahoo", "com">>,
       <<"facebook", "com">>,
       <<"youtube", "com">>,
       <<"netflix", "com">>,
       <<"baidu", "com">>,
       <<"wikipedia", "org">>,
       <<"twitter", "com">>,
       <<"qq", "com">>,
       <<"taobao", "com">>,
       <<"amazon", "com">>,
       <<"live", "com">>,
       <<"bing", "com">>,
       <<"wordpress", "com">>,
       <<"msn", "com">>,
       <<"update", "symantec", "com">> >>

\* Fqdn.__init__: self.wl
FqdnInitWl == {FqdnPermWhitelist[i] : i \in 1..Len(FqdnPermWhitelist)}

\* the loop of match_whitelist.  enumerate(bits) walks the list by index while
\* bits.pop(0) shortens it: the pass with index i runs only while i is below
\* the current length.  Falling off the end returns None (FALSE here).
RECURSIVE MatchLoop(_, _, _)
MatchLoop(wl, bits, i) ==
    IF i >= Len(bits) THEN FALSE
    ELSE IF bits \in wl THEN TRUE
    ELSE MatchLoop(wl, Tail(bits), i + 1)

\* match_whitelist(wl, d): bits = d.split('.')
match_whitelist(wl, d) == MatchLoop(wl, d, 0)

\* the first loop of Fqdn.process: wl.add(w); a dict is unhashable (TypeError),
\* and what was added before it stays in the set
RECURSIVE FqdnAdd(_, _)
FqdnAdd(wl, whitelist) ==
    IF whitelist = <<>> THEN [wl |-> wl, raised |-> None]
    ELSE LET w == Head(whitelist) IN
         IF w.kind = "dict" THEN [wl |-> wl, raised |-> "TypeError"]
         ELSE FqdnAdd(wl \cup {w.val}, Tail(whitelist))

\* the second loop of Fqdn.process
RECURSIVE FqdnFilter(_, _, _)
FqdnFilter(wl, d, rv) ==
    IF d = <<>> THEN rv
    ELSE LET x == Head(d) IN
         IF ~match_whitelist(wl, x.observable)
         THEN FqdnFilter(wl, Tail(d), Append(rv, x))
         ELSE FqdnFilter(wl, Tail(d), rv)

\* Fqdn.process(data, whitelist) on an instance whose self.wl is self_wl:
\* wl = self.wl is the same set object, so the additions are kept in wl
FqdnProcess(self_wl, d, whitelist) ==
    LET add == FqdnAdd(self_wl, whitelist) IN
    IF add.raised # None THEN [raised |-> add.raised, rv |-> <<>>, wl |-> add.wl]
    ELSE [raised |-> None, rv |-> FqdnFilter(add.wl, d, <<>>), wl |-> add.wl]

\* ------------------------------------------------------------------ the calls

Plugins == {"ipv4", "fqdn"}

Ipv4Data ==
    { Rec(Ip(1, 2, 3, 4), 85, 1, "a", {}),
      Rec(Ip(10, 1, 1, 1), 90, 1, "a", {}),
      Rec(Ip(172, 16, 1, 60), 50, 2, "b", {"scanner"}),
      Rec(Cidr(1, 2, 3, 0, 24), 40, 2, "b", {"scanner", "whitelist"}) }

Ipv4Entries ==
    { DictVal(Rec(Ip(172, 16, 1, 60), 25, 1, "w", {"whitelist"})),
      DictVal(Rec(Cidr(1, 2, 0, 0, 16), 25, 1, "w", {"whitelist"})),
      StrVal(Ip(1, 2, 3, 4)) }

FqdnData ==
    { Rec(<<"evil", "com">>, 85, 1, "a", {}),
      Rec(<<"mail", "google", "com">>, 90, 1, "a", {}),
      Rec(<<"a", "b", "google", "com">>, 50, 2, "b", {"malware"}),
      Rec(<<"cdn", "evil", "com">>, 40, 2, "b", {"whitelist"}) }

FqdnEntries ==
    { DictVal(Rec(<<"evil", "com">>, 25, 1, "w", {"whitelist"})),
      StrVal(<<"evil", "com">>),
      StrVal(<<"mail", "evil", "com">>) }

DataOf(p) == IF p = "ipv4" THEN Ipv4Data ELSE FqdnData

EntriesOf(p) == IF p = "ipv4" THEN Ipv4Entries ELSE FqdnEntries

\* the attribute state of a new instance: Ipv4.__init__ sets nothing
NewWl(p) == IF p = "ipv4" THEN {} ELSE FqdnInitWl

\* process on an instance whose attribute state is self_wl
ProcessOn(p, self_wl, d, whitelist) ==
    IF p = "ipv4" THEN Ipv4Process(d, whitelist)
    ELSE FqdnProcess(self_wl, d, whitelist)

\* f().process(d, whitelist): process on a new instance
FreshProcess(p, d, whitelist) == ProcessOn(p, NewWl(p), d, whitelist)

\* a new instance and the data of the caller; nothing else runs
FeedInit ==
    /\ plugin \in Plugins
    /\ feedData \in SeqsUpTo(DataOf(plugin), MaxFeedData)
    /\ selfWl = NewWl(plugin)
    /\ res = NoCall
    /\ aggRet = <<>>
    /\ aggArg = <<>>
    /\ aggData = <<>>
    /\ aggField = None
    /\ aggSort = None
    /\ aggPrevField = None
    /\ aggPrevSort = None
    /\ mWl = {}
    /\ mD = <<>>
    /\ mRv = "pending"
    /\ pc = "done"
    /\ options = [otype |-> None, aggregate |-> None, feed |-> FALSE]
    /\ ret = <<>>
    /\ mainWl = <<>>
    /\ mainF = None
    /\ raised = None
    /\ printed = <<>>

\* f(): a new instance of the same class replaces the old one
NewInstance ==
    /\ selfWl' = NewWl(plugin)
    /\ UNCHANGED <<plugin, feedData, res, aggVars, matchVars, mainVars>>

\* f.process(data, whitelist)
Process(whitelist) ==
    LET r == ProcessOn(plugin, selfWl, feedData, whitelist)
    IN /\ selfWl' = r.wl
       /\ res' = [state |-> IF r.raised = None THEN "returned" ELSE r.raised,
                  whitelist |-> whitelist, rv |-> r.rv, pre |-> selfWl, post |-> r.wl]
       /\ UNCHANGED <<plugin, feedData, aggVars, matchVars, mainVars>>

FeedNext ==
    \/ NewInstance
    \/ \E whitelist \in SeqsUpTo(EntriesOf(plugin), MaxWl) : Process(whitelist)

\* ------------------------------------------------------------------ match_whitelist alone

Labels == {"a", "mail", "Mail", "google", "Google", "com", "COM"}

MatchDomains == {<<"google", "com">>, <<"com">>, <<"mail", "google", "com">>}

Candidates == UNION {[1..k -> Labels] : k \in 1..MaxLabels}

\* the arguments of one call; nothing else runs
MatchInit ==
    /\ mWl \in SUBSET MatchDomains
    /\ mD \in Candidates
    /\ mRv = "pending"
    /\ aggRet = <<>>
    /\ aggArg = <<>>
    /\ aggData = <<>>
    /\ aggField = None
    /\ aggSort = None
    /\ aggPrevField = None
    /\ aggPrevSort = None
    /\ plugin = "ipv4"
    /\ feedData = <<>>
    /\ selfWl = {}
    /\ res = NoCall
    /\ pc = "done"
    /\ options = [otype |-> None, aggregate |-> None, feed |-> FALSE]
    /\ ret = <<>>
    /\ mainWl = <<>>
    /\ mainF = None
    /\ raised = None
    /\ printed = <<>>

\* self.match_whitelist(wl, d)
MatchWhitelist ==
    /\ mRv = "pending"
    /\ mRv' = IF match_whitelist(mWl, mD) THEN "True" ELSE None
    /\ UNCHANGED <<mWl, mD, aggVars, feedVars, mainVars>>

MatchNext == MatchWhitelist

\* ------------------------------------------------------------------ feed/__init__.py, main

plugins == {"ipv4", "ipv6", "fqdn", "url"}

\* factory(name): the class registered under the name, or None
factory(name) == IF name \in plugins THEN name ELSE None

\* --otype: the two types whose classes are modelled, a type the server knows
\* and the feed does not, and no --otype at all
Otypes == {"ipv4", "fqdn", "email", None}

\* --aggregate
AggregateOptions == {None, "observable", "provider"}

\* the records a search can return for the otype filter
SearchData(otype) == IF otype \in {"ipv4", None} THEN Ipv4Data ELSE FqdnData

\* the records a search with tags=whitelist can return: dicts, as all records
WhitelistRecords(otype) ==
    {e \in (IF otype \in {"ipv4", None} THEN Ipv4Entries ELSE FqdnEntries) : e.kind = "dict"}

\* main before its search, for each command line; nothing else runs
MainInit ==
    /\ pc = "search"
    /\ options \in [otype : Otypes, aggregate : AggregateOptions, feed : BOOLEAN]
    /\ ret = <<>>
    /\ mainWl = <<>>
    /\ mainF = None
    /\ raised = None
    /\ printed = <<>>
    /\ aggRet = <<>>
    /\ aggArg = <<>>
    /\ aggData = <<>>
    /\ aggField = None
    /\ aggSort = None
    /\ aggPrevField = None
    /\ aggPrevSort = None
    /\ plugin = "ipv4"
    /\ feedData = <<>>
    /\ selfWl = {}
    /\ res = NoCall
    /\ mWl = {}
    /\ mD = <<>>
    /\ mRv = "pending"

\* ret = cli.search(...)
Search(result) ==
    /\ pc = "search"
    /\ ret' = result
    /\ pc' = "aggregate"
    /\ UNCHANGED <<options, mainWl, mainF, raised, printed, aggVars, feedVars, matchVars>>

\* if options.get('aggregate'): ret = cli.aggregate(ret, field=options['aggregate'])
MainAggregate ==
    /\ pc = "aggregate"
    /\ ret' = IF options.aggregate # None
              THEN aggregate(ret, options.aggregate, "confidence")
              ELSE ret
    /\ pc' = IF options.feed THEN "whitelist" ELSE "format"
    /\ UNCHANGED <<options, mainWl, mainF, raised, printed, aggVars, feedVars, matchVars>>

\* wl = cli.search(..., filters=wl_filters)
SearchWhitelist(result) ==
    /\ pc = "whitelist"
    /\ mainWl' = result
    /\ pc' = "factory"
    /\ UNCHANGED <<options, ret, mainF, raised, printed, aggVars, feedVars, matchVars>>

\* f = feed_factory(options['otype'])
FeedFactory ==
    /\ pc = "factory"
    /\ mainF' = factory(options.otype)
    /\ pc' = "feed_aggregate"
    /\ UNCHANGED <<options, ret, mainWl, raised, printed, aggVars, feedVars, matchVars>>

\* ret = cli.aggregate(ret)
FeedAggregate ==
    /\ pc = "feed_aggregate"
    /\ ret' = aggregate(ret, "observable", "confidence")
    /\ pc' = "process"
    /\ UNCHANGED <<options, mainWl, mainF, raised, printed, aggVars, feedVars, matchVars>>

\* ret = f().process(ret, wl); calling None raises TypeError, and main's
\* except Exception logs the exception and raises SystemExit
FeedProcess ==
    /\ pc = "process"
    /\ LET r == IF mainF = None THEN [raised |-> "TypeError", rv |-> <<>>]
                ELSE FreshProcess(mainF, ret, mainWl)
       IN /\ raised' = r.raised
          /\ ret' = IF r.raised = None THEN r.rv ELSE ret
          /\ pc' = IF r.raised = None THEN "format" ELSE "exit"
    /\ UNCHANGED <<options, mainWl, mainF, printed, aggVars, feedVars, matchVars>>

\* if len(ret) >= 1: print(f(ret)), else "no results found..."
Format ==
    /\ pc = "format"
    /\ printed' = ret
    /\ pc' = "done"
    /\ UNCHANGED <<options, ret, mainWl, mainF, raised, aggVars, feedVars, matchVars>>

MainNext ==
    \/ \E result \in SeqsUpTo(SearchData(options.otype), MaxFeedData) : Search(result)
    \/ MainAggregate
    \/ \E result \in SeqsUpTo(WhitelistRecords(options.otype), MaxWl) : SearchWhitelist(result)
    \/ FeedFactory
    \/ FeedAggregate
    \/ FeedProcess
    \/ Format

\* ------------------------------------------------------------------ properties: aggregate

\* C1: aggregate returns at most one record per distinct key value; the record
\* kept for a key has the maximum rank among the input records of that key,
\* and among those of maximum rank it is the first of the input.
DedupCorrect ==
    aggField # None =>
        /\ \A i, j \in 1..Len(aggRet) :
               i # j => aggRet[i][aggField] # aggRet[j][aggField]
        /\ \A i \in 1..Len(aggRet) :
               \E k \in 1..Len(aggArg) :
                   /\ aggArg[k] = aggRet[i]
                   /\ \A m \in 1..Len(aggArg) :
                          aggArg[m][aggField] = aggRet[i][aggField] =>
                              /\ aggArg[m][aggSort] <= aggRet[i][aggSort]
                              /\ aggArg[m][aggSort] = aggRet[i][aggSort] => k <= m

\* an input with three records of one key, two of them different records that
\* tie on the maximum rank, and the first of the two is the one kept
DedupWitness ==
    /\ aggField = "observable"
    /\ aggSort = "confidence"
    /\ Len(aggArg) = 3
    /\ Len(aggRet) = 1
    /\ \E i, j, k \in 1..3 :
           /\ i < j
           /\ k \notin {i, j}
           /\ aggArg[i] # aggArg[j]
           /\ aggArg[i].confidence = aggArg[j].confidence
           /\ aggArg[k].confidence < aggArg[i].confidence
           /\ aggRet[1] = aggArg[i]

\* C10: aggregating again with the same field and sort returns the list it was
\* given, same records in the same order; and the list passed to aggregate is
\* the same after the call as before.
AggregateIdempotent ==
    /\ aggData = aggArg
    /\ (aggField # None /\ aggPrevField = aggField /\ aggPrevSort = aggSort) =>
           aggRet = aggArg

\* the second aggregation of main in feed mode after --aggregate observable, on
\* a list of two records of different observables that tie on confidence
AggregateIdempotentWitness ==
    /\ aggPrevField = "observable"
    /\ aggPrevSort = "confidence"
    /\ aggField = "observable"
    /\ aggSort = "confidence"
    /\ Len(aggRet) = 2
    /\ aggRet[1].confidence = aggRet[2].confidence

\* ------------------------------------------------------------------ properties: feed

\* s is t with some elements left out
RECURSIVE IsSubSeq(_, _)
IsSubSeq(s, t) ==
    IF s = <<>> THEN TRUE
    ELSE IF t = <<>> THEN FALSE
    ELSE IF Head(s) = Head(t) THEN IsSubSeq(Tail(s), Tail(t))
    ELSE IsSubSeq(s, Tail(t))

InList(r, l) == \E i \in 1..Len(l) : l[i] = r

RemoveAt(s, k) == SubSeq(s, 1, k - 1) \o SubSeq(s, k + 1, Len(s))

\* the domain w is the domain d or a label-aligned suffix of it
DomainCovers(w, d) ==
    Len(w) <= Len(d) /\ SubSeq(d, Len(d) - Len(w) + 1, Len(d)) = w

\* the address or block o lies inside the block (or is the address) w
BlockCovers(w, o) ==
    LET wn == IF w.slash THEN w.plen ELSE 32
        on == IF o.slash THEN o.plen ELSE 32
    IN wn <= on /\ SamePrefix(w.addr, o.addr, wn)

Covers(p, w, o) == IF p = "ipv4" THEN BlockCovers(w, o) ELSE DomainCovers(w, o)

PermOf(p) ==
    IF p = "ipv4" THEN {Ipv4PermWhitelist[i] : i \in 1..Len(Ipv4PermWhitelist)}
    ELSE {FqdnPermWhitelist[i] : i \in 1..Len(FqdnPermWhitelist)}

\* C2: no record whose observable matches the permanent whitelist of the type
\* is in a returned feed, whatever the data and the whitelist argument.
PermWhitelistAlwaysActive ==
    res.state = "returned" =>
        \A i \in 1..Len(res.rv) :
            \A w \in PermOf(plugin) : ~Covers(plugin, w, res.rv[i].observable)

\* C3: no record whose tags contain "whitelist" is in a returned feed.
SelfTaggedExcluded ==
    res.state = "returned" =>
        \A i \in 1..Len(res.rv) : "whitelist" \notin res.rv[i].tags

\* C5: called with a list of whitelist records, process returns a feed, and no
\* record of the feed has an observable matched by the observable of one of
\* the whitelist records.
DynamicWhitelistSeeded ==
    (/\ res.state # "none"
     /\ \A j \in 1..Len(res.whitelist) : res.whitelist[j].kind = "dict") =>
        /\ res.state = "returned"
        /\ \A i \in 1..Len(res.rv) :
               \A j \in 1..Len(res.whitelist) :
                   ~Covers(plugin, res.whitelist[j].val.observable, res.rv[i].observable)

\* C6: when a feed is built with W and then one with W' = W plus one entry, on
\* the same data, by a new instance both times or by one instance in a row,
\* the second feed is a sub-sequence of the first.
WhitelistMonotone ==
    [][ (/\ res.state = "returned"
         /\ res'.state = "returned"
         /\ res'.pre \in {res.pre, res.post}
         /\ \E k \in 1..Len(res'.whitelist) : RemoveAt(res'.whitelist, k) = res.whitelist)
        => IsSubSeq(res'.rv, res.rv) ]_vars

\* a feed built with a dynamic whitelist whose last entry is what keeps some
\* record out: built without that entry, the feed has the record
WhitelistMonotoneWitness ==
    /\ res.state = "returned"
    /\ res.whitelist # <<>>
    /\ \E i \in 1..Len(feedData) :
           /\ ~InList(feedData[i], res.rv)
           /\ InList(feedData[i],
                     ProcessOn(plugin, res.pre, feedData,
                               SubSeq(res.whitelist, 1, Len(res.whitelist) - 1)).rv)

\* C7: the outcome of a call is the outcome of the same call on an instance
\* that has served no call before: it depends on the data, the whitelist
\* argument and the permanent whitelist alone.
NoCrossCallState ==
    res.state # "none" =>
        LET r == FreshProcess(plugin, feedData, res.whitelist) IN
        /\ res.rv = r.rv
        /\ res.state = (IF r.raised = None THEN "returned" ELSE r.raised)


\* ------------------------------------------------------------------ properties: match_whitelist

\* C4: match_whitelist returns a true value exactly when some whitelisted
\* domain is the candidate or a label-aligned suffix of it.
SuffixMatch ==
    mRv # "pending" =>
        ((mRv = "True") <=> (\E w \in mWl : DomainCovers(w, mD)))

\* str.lower() on the labels that occur
Lower(l) ==
    CASE l = "Mail" -> "mail"
      [] l = "Google" -> "google"
      [] l = "COM" -> "com"
      [] OTHER -> l

LowerDomain(d) == [i \in 1..Len(d) |-> Lower(d[i])]

\* C9: match_whitelist gives a candidate the result it gives every candidate
\* that differs from it only in letter case.
CaseInsensitiveMatch ==
    mRv # "pending" =>
        \A d2 \in Candidates :
            LowerDomain(d2) = LowerDomain(mD) =>
                (mRv = "True") = match_whitelist(mWl, d2)

\* ------------------------------------------------------------------ properties: main

\* C8: with --feed and an otype that is none of ipv4, ipv6, fqdn, url, main
\* never gets past the factory call: the records are not aggregated for the
\* feed, the only exception is the unsupported-type error, nothing is printed.
UnsupportedTypeFailsFirst ==
    (options.feed /\ options.otype \notin {"ipv4", "ipv6", "fqdn", "url"}) =>
        /\ pc \notin {"feed_aggregate", "process", "format", "done"}
        /\ raised \in {None, "UnsupportedObservableType"}
        /\ printed = <<>>

\* ------------------------------------------------------------------ specifications

SpecAggregate == AggInit /\ [][AggNext]_vars

Spec == FeedInit /\ [][FeedNext]_vars

SpecMatch == MatchInit /\ [][MatchNext]_vars

SpecMain == MainInit /\ [][MainNext]_vars

====
